---- MODULE Spec2Model ----
(***************************************************************************)
(* A model of libadic: the tracked-precision p-adic integers (Zp), the     *)
(* Dirichlet characters mod n and the Kubota-Leopoldt L-function           *)
(* evaluator with its two memo caches.                                     *)
(*                                                                         *)
(* Seven specifications share the module:                                  *)
(*   SpecZp          two Zp operands, built by the constructors, and the   *)
(*                   binary operators applied to them;                     *)
(*   SpecZpUnary     one Zp operand and the operations on one Zp           *)
(*                   (with_precision, lift_precision, -, pow, unit_part,   *)
(*                   sqrt);                                                *)
(*   SpecZpRational  Zp::from_rational and the product of its result with  *)
(*                   the denominator;                                      *)
(*   SpecChar        one DirichletCharacter, built by either constructor,  *)
(*                   and its queries and the two enumerations;             *)
(*   SpecCyclotomic  one DirichletCharacter and its value_cache under      *)
(*                   evaluate_cyclotomic and gauss_sum;                    *)
(*   SpecL           the two static caches of LFunctions under calls of    *)
(*                   kubota_leopoldt, kubota_leopoldt_derivative and       *)
(*                   clear_cache;                                          *)
(*   SpecLog         PadicLog::log, log_unit and log_product on Qp values. *)
(***************************************************************************)
EXTENDS Integers, Sequences, FiniteSets, TLC

VARIABLES
    zx, zy,        \* SpecZp: the two operands (Zp values)
    zr,            \* SpecZp: the outcome of the last operation
    zop,           \* SpecZp: the name of the last operation
    zarg,          \* SpecZp: the integer arguments of the last operation
    chi,           \* SpecChar: the character under construction / query
    value_cache,   \* SpecChar: DirichletCharacter::value_cache of chi
    cop,           \* SpecChar: the name of the last operation
    carg,          \* SpecChar: the integer arguments of the last operation
    cret,          \* SpecChar: what the last operation returned
    l_cache,       \* SpecL: LFunctions::l_cache, a set of <<key, value>> entries
    l_derivative_cache, \* SpecL: LFunctions::l_derivative_cache
    lcall,         \* SpecL: the last call and its arguments
    lret,          \* SpecL: what the last call returned
    qx, qy,        \* SpecLog: the two Qp arguments
    qop,           \* SpecLog: the name of the last call of PadicLog
    qret           \* SpecLog: the outcome of the last call

zvars == <<zx, zy, zr, zop, zarg>>
cvars == <<chi, value_cache, cop, carg, cret>>
lvars == <<l_cache, l_derivative_cache, lcall, lret>>
qvars == <<qx, qy, qop, qret>>
vars == <<zx, zy, zr, zop, zarg, chi, value_cache, cop, carg, cret,
          l_cache, l_derivative_cache, lcall, lret, qx, qy, qop, qret>>

----------------------------------------------------------------------------
(* Bounds of the model. *)

\* the largest precision N a constructor is called with
MaxPrec == 2
\* constructors are called with integers val in -MaxVal .. MaxVal
MaxVal == 9
\* characters are built for the moduli 1 .. MaxMod
MaxMod == 12
\* kubota_leopoldt is called with s in 0 .. MaxS
MaxS == 1
\* calls that insert are made while the two caches hold fewer than MaxCache
\* entries together (one call of the derivative at s # 0 inserts four)
MaxCache == 1
\* SpecZpUnary builds its operand with precisions up to MaxLiftPrec
MaxLiftPrec == 4
\* from_rational is called with numerator and denominator in -MaxRat .. MaxRat
MaxRat == 3
\* pow is called with exponents 0 .. MaxExp
MaxExp == 3

----------------------------------------------------------------------------
(* Integer helpers: the bignum primitives and <numeric>. *)

Min(a, b) == IF a <= b THEN a ELSE b

Abs(a) == IF a < 0 THEN -a ELSE a

\* BigInt::pow(k), k >= 0
RECURSIVE Pow(_, _)
Pow(b, k) == IF k <= 0 THEN 1 ELSE b * Pow(b, k - 1)

\* The remainder of C++ and of the bignum layer: it takes the sign of the dividend.
TruncMod(a, m) == IF a >= 0 THEN a % m ELSE -((-a) % m)

\* BigInt::is_divisible_by
IsDivisibleBy(a, m) == a % m = 0

\* the extended Euclidean algorithm: <<g, x, y>> with a * x + b * y = g
RECURSIVE ExtendedGcd(_, _)
ExtendedGcd(a, b) ==
    IF b = 0 THEN <<a, 1, 0>>
    ELSE LET r == ExtendedGcd(b, a % b)
         IN  <<r[1], r[3], r[2] - (a \div b) * r[3]>>

\* BigInt::mod_inverse(m): the inverse in [0, m), or -1 where there is none
\* (the bignum layer fails there).
ModInverse(a, m) ==
    LET r == ExtendedGcd(a % m, m)
    IN  IF m < 2 \/ r[1] # 1 THEN -1 ELSE r[2] % m

\* std::gcd, on absolute values
RECURSIVE GcdNat(_, _)
GcdNat(a, b) == IF b = 0 THEN a ELSE GcdNat(b, a % b)

Gcd(a, b) == GcdNat(Abs(a), Abs(b))

\* std::lcm
Lcm(a, b) == IF a = 0 \/ b = 0 THEN 0 ELSE (Abs(a) \div Gcd(a, b)) * Abs(b)

----------------------------------------------------------------------------
(* Zp: a p-adic integer with tracked precision.  An outcome is a record:   *)
(* err = "none" and the three fields of the value, or the error thrown     *)
(* and no value (the fields are 0).                                        *)

ZpVal(p, N, v) == [err |-> "none", prime |-> p, precision |-> N, value |-> v]

ZpFail(e) == [err |-> e, prime |-> 0, precision |-> 0, value |-> 0]

\* Zp::normalize
normalize(p, N, val) ==
    LET p_power == Pow(p, N)
        v == TruncMod(val, p_power)
    IN  IF v < 0 THEN v + p_power ELSE v

\* Zp::Zp(long p, long N, val): validate_prime, validate_precision, normalize
Zp(p, N, val) ==
    IF p < 2 THEN ZpFail("invalid_argument")
    ELSE IF N < 1 THEN ZpFail("invalid_argument")
    ELSE ZpVal(p, N, normalize(p, N, val))

\* Zp::Zp(long p, long N): the zero of that precision
ZpZero(p, N) ==
    IF p < 2 THEN ZpFail("invalid_argument")
    ELSE IF N < 1 THEN ZpFail("invalid_argument")
    ELSE ZpVal(p, N, 0)

\* Zp::is_zero
is_zero(x) == x.value = 0

\* Zp::is_unit
is_unit(x) == ~IsDivisibleBy(x.value, x.prime)

\* Zp::operator+
ZpAdd(x, y) ==
    IF x.prime # y.prime THEN ZpFail("invalid_argument")
    ELSE LET min_prec == Min(x.precision, y.precision)
             p_power == Pow(x.prime, min_prec)
             sum == TruncMod(x.value + y.value, p_power)
         IN  Zp(x.prime, min_prec, sum)

\* Zp::operator- (binary)
ZpSub(x, y) ==
    IF x.prime # y.prime THEN ZpFail("invalid_argument")
    ELSE LET min_prec == Min(x.precision, y.precision)
             p_power == Pow(x.prime, min_prec)
             d == TruncMod(x.value - y.value, p_power)
             diff == IF d < 0 THEN d + p_power ELSE d
         IN  Zp(x.prime, min_prec, diff)

\* A multiplication that keeps the left operand's precision instead of the minimum.
ZpMulLeftPrecision(x, y) ==
    IF x.prime # y.prime THEN ZpFail("invalid_argument")
    ELSE LET p_power == Pow(x.prime, x.precision)
             prod == TruncMod(x.value * y.value, p_power)
         IN  Zp(x.prime, x.precision, prod)

\* Zp::operator*
ZpMul(x, y) ==
    IF x.prime # y.prime THEN ZpFail("invalid_argument")
    ELSE LET min_prec == Min(x.precision, y.precision)
             p_power == Pow(x.prime, min_prec)
             prod == TruncMod(x.value * y.value, p_power)
         IN  Zp(x.prime, min_prec, prod)

\* A division that tests the divisor for zero only, not for being a unit.
ZpDivZeroTestOnly(x, y) ==
    IF x.prime # y.prime THEN ZpFail("invalid_argument")
    ELSE IF is_zero(y) THEN ZpFail("domain_error")
    ELSE LET min_prec == Min(x.precision, y.precision)
             p_power == Pow(x.prime, min_prec)
             inv == ModInverse(y.value, p_power)
             result == TruncMod(x.value * inv, p_power)
         IN  IF inv < 0 THEN ZpFail("bignum_error")
             ELSE Zp(x.prime, min_prec, result)

\* Zp::operator/
ZpDiv(x, y) ==
    IF x.prime # y.prime THEN ZpFail("invalid_argument")
    ELSE IF is_zero(y) THEN ZpFail("domain_error")
    ELSE IF IsDivisibleBy(y.value, y.prime) THEN ZpFail("domain_error")
    ELSE LET min_prec == Min(x.precision, y.precision)
             p_power == Pow(x.prime, min_prec)
             inv == ModInverse(y.value, p_power)
             result == TruncMod(x.value * inv, p_power)
         IN  IF inv < 0 THEN ZpFail("bignum_error")
             ELSE Zp(x.prime, min_prec, result)

----------------------------------------------------------------------------
(* DirichletCharacter: a record of the six data members (value_cache, the  *)
(* cache of cyclotomic values, is not read by anything modelled here).     *)

\* DirichletCharacter::pow_mod, the loop: on long, with the remainder of C++
RECURSIVE PowModLoop(_, _, _, _)
PowModLoop(result, base, exp, mod) ==
    IF exp <= 0 THEN result
    ELSE PowModLoop(IF exp % 2 = 1 THEN TruncMod(result * base, mod) ELSE result,
                    TruncMod(base * base, mod), exp \div 2, mod)

\* DirichletCharacter::pow_mod
pow_mod(base, exp, mod) == PowModLoop(1, TruncMod(base, mod), exp, mod)

\* compute_generators: while (n % p == 0) { pow++; n /= p; }, giving <<pow, n>>
RECURSIVE StripFactor(_, _, _)
StripFactor(n, p, pow) ==
    IF n % p = 0 THEN StripFactor(n \div p, p, pow + 1) ELSE <<pow, n>>

\* compute_generators: the loop over odd p with p * p <= n, and the last factor
RECURSIVE OddFactors(_, _, _)
OddFactors(n, p, factorization) ==
    IF p * p <= n
    THEN LET st == StripFactor(n, p, 0)
         IN  OddFactors(st[2], p + 2,
                        IF st[1] > 0 THEN Append(factorization, <<p, st[1]>>)
                        ELSE factorization)
    ELSE IF n > 1 THEN Append(factorization, <<n, 1>>)
    ELSE factorization

\* compute_generators: the factorization of the modulus, a sequence of <<p, k>>
Factorization(modulus) ==
    LET st == StripFactor(modulus, 2, 0)
    IN  OddFactors(st[2], 3, IF st[1] > 0 THEN <<<<2, st[1]>>>> ELSE <<>>)

\* compute_generators: the test "g generates (Z/pZ)*", d from 2 while d * d <= p - 1
RECURSIVE IsPrimitiveFrom(_, _, _)
IsPrimitiveFrom(g, p, d) ==
    IF d * d <= p - 1
    THEN IF (p - 1) % d = 0
              /\ (pow_mod(g, d, p) = 1 \/ pow_mod(g, (p - 1) \div d, p) = 1)
         THEN FALSE
         ELSE IsPrimitiveFrom(g, p, d + 1)
    ELSE TRUE

\* compute_generators: the search "while (true) { ... g++; }" from g, with the lift
RECURSIVE FindGenerator(_, _, _)
FindGenerator(g, p, k) ==
    IF IsPrimitiveFrom(g, p, 2)
    THEN IF k > 1 /\ pow_mod(g, p - 1, p * p) = 1 THEN g + p ELSE g
    ELSE FindGenerator(g + 1, p, k)

\* compute_generators: the generators and orders one factor <<p, k>> contributes,
\* a sequence of <<generator, order>>
FactorGenerators(p, k) ==
    LET pk == Pow(p, k)
    IN  IF p = 2 /\ k >= 3 THEN <<<<-1, 2>>, <<3, pk \div 4>>>>
        ELSE IF p = 2 /\ k = 2 THEN <<<<-1, 2>>>>
        ELSE IF p = 2 /\ k = 1 THEN <<>>
        ELSE <<<<FindGenerator(2, p, k), pk - (pk \div p)>>>>

RECURSIVE GeneratorsFrom(_, _)
GeneratorsFrom(factorization, i) ==
    IF i > Len(factorization) THEN <<>>
    ELSE FactorGenerators(factorization[i][1], factorization[i][2])
            \o GeneratorsFrom(factorization, i + 1)

\* DirichletCharacter::compute_generators: the sequence of <<generator, order>>
compute_generators(modulus) ==
    IF modulus = 1 THEN <<>>
    ELSE GeneratorsFrom(Factorization(modulus), 1)

\* express_in_generators: the first e in [e, order) with g^e = a mod modulus, else 0
RECURSIVE FindExponent(_, _, _, _, _)
FindExponent(g, order, a, modulus, e) ==
    IF e >= order THEN 0
    ELSE IF pow_mod(g, e, modulus) = (TruncMod(a, modulus) + modulus) % modulus THEN e
    ELSE FindExponent(g, order, a, modulus, e + 1)

\* DirichletCharacter::express_in_generators
express_in_generators(c, a) ==
    IF Gcd(a, c.modulus) # 1
    THEN [i \in 1 .. Len(c.generators) |-> 0]
    ELSE [i \in 1 .. Len(c.generators) |->
            FindExponent(c.generators[i], c.generator_orders[i], a, c.modulus, 0)]

\* evaluate_at: the loop over the generators from i, carrying result and order
RECURSIVE EvaluateLoop(_, _, _, _, _)
EvaluateLoop(c, exps, i, result, order) ==
    IF i > Len(c.generators) THEN result
    ELSE IF c.character_values[i] # 0
    THEN LET o == Lcm(order, c.generator_orders[i])
         IN  EvaluateLoop(c, exps, i + 1,
                 TruncMod(result * pow_mod(c.character_values[i], exps[i], o), o), o)
    ELSE EvaluateLoop(c, exps, i + 1, result, order)

\* DirichletCharacter::evaluate_at
evaluate_at(c, n) ==
    IF Gcd(n, c.modulus) # 1 THEN 0
    ELSE LET m == (TruncMod(n, c.modulus) + c.modulus) % c.modulus
         IN  EvaluateLoop(c, express_in_generators(c, m), 1, 1, 1)

\* compute_conductor: the inner loop "for a": chi(a) = chi(a mod d) for every a in
\* [1, modulus] coprime to modulus and to d
factors_through(c, d) ==
    \A a \in 1 .. c.modulus :
        (Gcd(a, c.modulus) = 1 /\ Gcd(a, d) = 1) =>
            evaluate_at(c, a) = evaluate_at(c, a % d)

\* DirichletCharacter::compute_conductor: the first divisor d < modulus that
\* passes, else the modulus
compute_conductor(c) ==
    LET passing == {d \in 1 .. (c.modulus - 1) :
                        c.modulus % d = 0 /\ factors_through(c, d)}
    IN  IF passing = {} THEN c.modulus
        ELSE CHOOSE d \in passing : \A e \in passing : d <= e

GeneratorList(modulus) ==
    LET gs == compute_generators(modulus)
    IN  [i \in 1 .. Len(gs) |-> gs[i][1]]

OrderList(modulus) ==
    LET gs == compute_generators(modulus)
    IN  [i \in 1 .. Len(gs) |-> gs[i][2]]

\* DirichletCharacter(mod, p): the conductor is set to mod and not computed
DirichletCharacter2(mod, p) ==
    [modulus |-> mod, prime |-> p, conductor |-> mod,
     generators |-> GeneratorList(mod),
     generator_orders |-> OrderList(mod),
     character_values |-> [i \in 1 .. Len(GeneratorList(mod)) |-> 0],
     err |-> "none"]

CharFail(e) ==
    [modulus |-> 0, prime |-> 0, conductor |-> 0, generators |-> <<>>,
     generator_orders |-> <<>>, character_values |-> <<>>, err |-> e]

\* DirichletCharacter(mod, p, gen_values)
DirichletCharacter3(mod, p, gen_values) ==
    LET c == [modulus |-> mod, prime |-> p, conductor |-> mod,
              generators |-> GeneratorList(mod),
              generator_orders |-> OrderList(mod),
              character_values |-> gen_values,
              err |-> "none"]
    IN  IF Len(gen_values) # Len(c.generators) THEN CharFail("invalid_argument")
        ELSE [c EXCEPT !.conductor = compute_conductor(c)]

\* DirichletCharacter::is_even
is_even(c) == evaluate_at(c, -1) = 1

\* DirichletCharacter::is_odd
is_odd(c) == evaluate_at(c, -1) = c.modulus - 1

\* DirichletCharacter::is_primitive
is_primitive(c) == c.conductor = c.modulus

\* DirichletCharacter::is_principal
is_principal(c) ==
    \A i \in 1 .. Len(c.character_values) :
        ~(c.character_values[i] # 1 /\ c.character_values[i] # 0)

\* get_order, the search of the least k in 1 .. m with e^k = 1 mod m; 0 if none
RECURSIVE FindOrder(_, _, _)
FindOrder(e, m, k) ==
    IF k > m THEN 0
    ELSE IF pow_mod(e, k, m) = 1 THEN k
    ELSE FindOrder(e, m, k + 1)

\* get_order, the loop over the character values
RECURSIVE OrderLoop(_, _, _)
OrderLoop(c, i, order) ==
    IF i > Len(c.character_values) THEN order
    ELSE LET k == FindOrder(c.character_values[i], c.generator_orders[i], 1)
         IN  IF c.character_values[i] # 0 /\ k # 0
             THEN OrderLoop(c, i + 1, Lcm(order, k))
             ELSE OrderLoop(c, i + 1, order)

\* DirichletCharacter::get_order
get_order(c) == IF is_principal(c) THEN 1 ELSE OrderLoop(c, 1, 1)

\* enumerate_characters: the recursive lambda generate(index), which appends to
\* characters one character per combination of values, the first index outermost
RECURSIVE generate(_, _, _, _, _)
RECURSIVE generate_loop(_, _, _, _, _, _)
RECURSIVE generate_loop_inclusive(_, _, _, _, _, _)
generate(modulus, prime, index, current_values, characters) ==
    IF index = Len(current_values) + 1
    THEN Append(characters, DirichletCharacter3(modulus, prime, current_values))
    ELSE generate_loop(modulus, prime, index, current_values, characters, 0)

\* A loop that runs val up to and including the generator's order.
generate_loop_inclusive(modulus, prime, index, current_values, characters, val) ==
    IF val > OrderList(modulus)[index] THEN characters
    ELSE generate_loop_inclusive(modulus, prime, index, current_values,
             generate(modulus, prime, index + 1,
                      [current_values EXCEPT ![index] = val], characters),
             val + 1)

\* enumerate_characters: the loop "for val" of generate(index), from val
generate_loop(modulus, prime, index, current_values, characters, val) ==
    IF val >= OrderList(modulus)[index] THEN characters
    ELSE generate_loop(modulus, prime, index, current_values,
             generate(modulus, prime, index + 1,
                      [current_values EXCEPT ![index] = val], characters),
             val + 1)

\* DirichletCharacter::enumerate_characters
enumerate_characters(modulus, prime) ==
    LET base == DirichletCharacter2(modulus, prime)
    IN  IF Len(base.generators) = 0 THEN <<base>>
        ELSE generate(modulus, prime, 1,
                      [i \in 1 .. Len(base.generators) |-> 0], <<>>)

\* DirichletCharacter::enumerate_primitive_characters
enumerate_primitive_characters(modulus, prime) ==
    SelectSeq(enumerate_characters(modulus, prime), is_primitive)

----------------------------------------------------------------------------
(* Cyclotomic: an element of the ring over Z_p generated by the primitive  *)
(* (p-1)-th root of unity zeta, at a precision: the coefficients of        *)
(* zeta^0 .. zeta^(p-2), each modulo p^precision, with zeta^(p-1) = 1.     *)
(* A binary operation keeps the smaller precision, as in Zp.               *)

CycOf(p, N, coeffs) ==
    [prime |-> p, precision |-> N,
     coeffs |-> [i \in 1 .. (p - 1) |-> coeffs[i] % Pow(p, N)]]

\* Cyclotomic(p, N): zero
CyclotomicZero(p, N) == CycOf(p, N, [i \in 1 .. (p - 1) |-> 0])

\* Cyclotomic(p, N, Qp(p, N, x)): the scalar x
CyclotomicScalar(p, N, x) == CycOf(p, N, [i \in 1 .. (p - 1) |-> IF i = 1 THEN x ELSE 0])

\* Cyclotomic::zeta(p, N)
CyclotomicZeta(p, N) ==
    CycOf(p, N, [i \in 1 .. (p - 1) |-> IF i = 1 + (1 % (p - 1)) THEN 1 ELSE 0])

CycAdd(x, y) ==
    CycOf(x.prime, Min(x.precision, y.precision),
          [i \in 1 .. (x.prime - 1) |-> x.coeffs[i] + y.coeffs[i]])

\* the coefficient of zeta^k in x * y: the sum over i of x_i * y_(k - i)
RECURSIVE CycConvolve(_, _, _, _, _)
CycConvolve(x, y, k, i, m) ==
    IF i >= x.prime - 1 THEN 0
    ELSE (x.coeffs[i + 1] * y.coeffs[((k - i) % (x.prime - 1)) + 1]
          + CycConvolve(x, y, k, i + 1, m)) % m

CycMul(x, y) ==
    LET N == Min(x.precision, y.precision)
    IN  CycOf(x.prime, N,
              [i \in 1 .. (x.prime - 1) |->
                  CycConvolve(x, y, i - 1, 0, Pow(x.prime, N))])

\* result = result * zeta_power, count times
RECURSIVE CycTimesPower(_, _, _)
CycTimesPower(result, zeta_power, count) ==
    IF count <= 0 THEN result
    ELSE CycTimesPower(CycMul(result, zeta_power), zeta_power, count - 1)

\* DirichletCharacter::value_cache of a fresh character
EmptyValueCache == [k \in {} |-> CyclotomicZero(2, 1)]

\* DirichletCharacter::evaluate_cyclotomic past the lookup: the value and
\* whether it is stored under n
cyclotomic_value(c, n, precision) ==
    LET chi_n == evaluate_at(c, n)
        order == get_order(c)
        zeta == CyclotomicZeta(c.prime, precision)
        one == CyclotomicScalar(c.prime, precision, 1)
        exponent == (chi_n * (c.prime - 1)) \div order
    IN  IF chi_n = 0
        THEN [value |-> CyclotomicZero(c.prime, precision), stored |-> FALSE]
        ELSE [value |-> CycTimesPower(one, zeta, exponent), stored |-> TRUE]

\* DirichletCharacter::evaluate_cyclotomic(n, precision) on the character c
\* whose value_cache is cache: the value returned and the cache afterwards
evaluate_cyclotomic(c, cache, n, precision) ==
    LET v == cyclotomic_value(c, n, precision)
    IN  IF n \in DOMAIN cache THEN [value |-> cache[n], cache |-> cache]
        ELSE [value |-> v.value,
              cache |-> IF v.stored
                        THEN [k \in DOMAIN cache \cup {n} |->
                                 IF k = n THEN v.value ELSE cache[k]]
                        ELSE cache]

\* gauss_sum: the loop "for a" from a, carrying sum and the value_cache
RECURSIVE GaussLoop(_, _, _, _, _)
GaussLoop(c, precision, a, sum, cache) ==
    IF a > c.modulus THEN [value |-> sum, cache |-> cache]
    ELSE IF Gcd(a, c.modulus) # 1 THEN GaussLoop(c, precision, a + 1, sum, cache)
    ELSE LET r == evaluate_cyclotomic(c, cache, a, precision)
             zeta == CyclotomicZeta(c.prime, precision)
             zeta_power == CycTimesPower(CyclotomicScalar(c.prime, precision, 1), zeta,
                                         (a * (c.prime - 1)) \div c.modulus)
         IN  GaussLoop(c, precision, a + 1,
                       CycAdd(sum, CycMul(r.value, zeta_power)), r.cache)

\* DirichletCharacter::gauss_sum(precision)
gauss_sum(c, cache, precision) ==
    GaussLoop(c, precision, 1, CyclotomicZero(c.prime, precision), cache)

----------------------------------------------------------------------------
(* Qp and the Teichmuller character: their sources are not part of the     *)
(* files modelled; they follow the library's specification.  A Qp is the   *)
(* pair (valuation, unit) with the unit known modulo p^precision; zero has *)
(* unit 0 and, for its valuation, the precision.                           *)

\* p_adic_valuation of a nonzero integer
RECURSIVE p_adic_valuation(_, _)
p_adic_valuation(x, p) ==
    IF x # 0 /\ x % p = 0 THEN 1 + p_adic_valuation(x \div p, p) ELSE 0

\* teichmuller_character(x, p, N): the (p-1)-th root of unity congruent to x
\* mod p, the limit of x -> x^p, reached modulo p^N after N - 1 steps
RECURSIVE teichmuller_character(_, _, _)
teichmuller_character(x, p, N) ==
    IF N <= 1 THEN x % p
    ELSE LET w == teichmuller_character(x, p, N - 1)
             p_power == Pow(p, N)
         IN  pow_mod(w % p_power, p, p_power)

\* Zp::teichmuller
teichmuller(x) ==
    Zp(x.prime, x.precision, teichmuller_character(x.value, x.prime, x.precision))

QpZero(p, N) == [prime |-> p, precision |-> N, valuation |-> N, unit |-> 0]

\* the Qp of the integer x * p^v, with the unit reduced modulo p^N
QpOf(p, N, v, x) ==
    IF x = 0 THEN QpZero(p, N)
    ELSE LET k == p_adic_valuation(x, p)
             u == (x \div Pow(p, k)) % Pow(p, N)
         IN  [prime |-> p, precision |-> N, valuation |-> v + k, unit |-> u]

\* Qp::Qp(long p, long N, x)
QpInt(p, N, x) == QpOf(p, N, 0, x)

\* Qp::Qp(const Zp&): valuation 0 (zero stays zero)
QpFromZp(z) == QpOf(z.prime, z.precision, 0, z.value)

\* Qp::from_rational(a, b, p, N), b # 0
QpFromRational(a, b, p, N) ==
    IF a = 0 THEN QpZero(p, N)
    ELSE LET va == p_adic_valuation(a, p)
             vb == p_adic_valuation(b, p)
             ua == Abs(a) \div Pow(p, va)
             ub == Abs(b) \div Pow(p, vb)
             sign == IF (a < 0) # (b < 0) THEN -1 ELSE 1
             u == (sign * ua * ModInverse(ub % Pow(p, N), Pow(p, N))) % Pow(p, N)
         IN  [prime |-> p, precision |-> N, valuation |-> va - vb, unit |-> u]

QpIsZero(x) == x.unit = 0

\* Qp::operator*
QpMul(x, y) ==
    LET N == Min(x.precision, y.precision)
    IN  IF QpIsZero(x) \/ QpIsZero(y) THEN QpZero(x.prime, N)
        ELSE [prime |-> x.prime, precision |-> N,
              valuation |-> x.valuation + y.valuation,
              unit |-> (x.unit * y.unit) % Pow(x.prime, N)]

\* Qp::operator/ by a nonzero divisor
QpDiv(x, y) ==
    LET N == Min(x.precision, y.precision)
        p_power == Pow(x.prime, N)
    IN  IF QpIsZero(x) THEN QpZero(x.prime, N)
        ELSE [prime |-> x.prime, precision |-> N,
              valuation |-> x.valuation - y.valuation,
              unit |-> (x.unit * ModInverse(y.unit % p_power, p_power)) % p_power]

\* Qp::operator- (unary)
QpNeg(x) ==
    IF QpIsZero(x) THEN x
    ELSE [x EXCEPT !.unit = (Pow(x.prime, x.precision) - x.unit) % Pow(x.prime, x.precision)]

\* Qp::operator+: the units are aligned at the smaller valuation and added
QpAdd(x, y) ==
    LET N == Min(x.precision, y.precision)
        p_power == Pow(x.prime, N)
    IN  IF QpIsZero(x) /\ QpIsZero(y) THEN QpZero(x.prime, N)
        ELSE IF QpIsZero(x) THEN [y EXCEPT !.precision = N, !.unit = y.unit % p_power]
        ELSE IF QpIsZero(y) THEN [x EXCEPT !.precision = N, !.unit = x.unit % p_power]
        ELSE LET v == Min(x.valuation, y.valuation)
                 sum == x.unit * Pow(x.prime, x.valuation - v)
                          + y.unit * Pow(x.prime, y.valuation - v)
             IN  IF sum % p_power = 0 THEN QpZero(x.prime, N)
                 ELSE QpOf(x.prime, N, v, sum % p_power)

\* Qp::operator- (binary)
QpSub(x, y) == QpAdd(x, QpNeg(y))

\* Qp::pow(long e), e >= 0
RECURSIVE QpPow(_, _)
QpPow(x, e) ==
    IF e <= 0 THEN QpInt(x.prime, x.precision, 1) ELSE QpMul(x, QpPow(x, e - 1))

\* DirichletCharacter::evaluate: the Teichmuller lift of evaluate_at(n)
evaluate(c, n, precision) ==
    LET chi_n == evaluate_at(c, n)
    IN  IF chi_n = 0 THEN Zp(c.prime, precision, 0)
        ELSE teichmuller(Zp(c.prime, precision, chi_n))

----------------------------------------------------------------------------
(* Zp: the unary operations, the precision changes and from_rational.  A    *)
(* call that does not return is the outcome ZpFail("hang").                 *)

\* BigInt::operator/ : the quotient truncated toward zero
TruncDiv(a, b) ==
    IF (a >= 0) = (b >= 0) THEN Abs(a) \div Abs(b) ELSE -(Abs(a) \div Abs(b))

\* BigInt::pow_mod(e, m), e >= 0, on a non-negative base
RECURSIVE BigPowMod(_, _, _)
BigPowMod(b, e, m) == IF e <= 0 THEN 1 % m ELSE (b * BigPowMod(b, e - 1, m)) % m

\* Zp::with_precision, new_precision >= 0
with_precision(x, new_precision) ==
    IF new_precision < x.precision
    THEN LET new_value == TruncMod(x.value, Pow(x.prime, new_precision))
         IN  Zp(x.prime, new_precision, new_value)
    ELSE Zp(x.prime, new_precision, x.value)

\* Zp::lift_precision
lift_precision(x, new_precision) ==
    IF new_precision <= x.precision THEN x
    ELSE Zp(x.prime, new_precision, x.value)

\* Zp::operator- (unary)
ZpNeg(x) ==
    LET p_power == Pow(x.prime, x.precision)
        neg == TruncMod(p_power - x.value, p_power)
    IN  Zp(x.prime, x.precision, neg)

\* Zp::valuation
valuation(x) ==
    IF is_zero(x) THEN x.precision ELSE p_adic_valuation(x.value, x.prime)

\* A unit part that keeps the precision of the operand.
unit_part_same_precision(x) ==
    IF is_zero(x) THEN x
    ELSE LET val == valuation(x)
         IN  IF val = 0 THEN x
             ELSE Zp(x.prime, x.precision, TruncDiv(x.value, Pow(x.prime, val)))

\* Zp::unit_part
unit_part(x) ==
    IF is_zero(x) THEN x
    ELSE LET val == valuation(x)
         IN  IF val = 0 THEN x
             ELSE Zp(x.prime, x.precision - val, TruncDiv(x.value, Pow(x.prime, val)))

\* Zp::pow(exp), exp >= 0
ZpPow(x, exp) ==
    LET p_power == Pow(x.prime, x.precision)
        result == BigPowMod(x.value, exp, p_power)
    IN  Zp(x.prime, x.precision, result)

\* Zp::sqrt, the loop that strips the factors of 2 from q = p - 1: <<q, s>>
RECURSIVE SplitPowerOfTwo(_, _)
SplitPowerOfTwo(q, s) ==
    IF q % 2 = 0 THEN SplitPowerOfTwo(TruncDiv(q, 2), s + 1) ELSE <<q, s>>

\* Zp::sqrt, the search of a quadratic non-residue z from 2 upward
RECURSIVE FindNonResidue(_, _)
FindNonResidue(z, p) ==
    IF BigPowMod(z, TruncDiv(p - 1, 2), p) # p - 1 THEN FindNonResidue(z + 1, p) ELSE z

\* Zp::sqrt, the least i >= 1 with t^(2^i) = 1 mod p
RECURSIVE LeastSquaring(_, _, _)
LeastSquaring(t2, i, p) ==
    IF t2 # 1 THEN LeastSquaring((t2 * t2) % p, i + 1, p) ELSE i

\* Zp::sqrt, b squared `count` times mod p
RECURSIVE RepeatSquare(_, _, _)
RepeatSquare(b, count, p) ==
    IF count > 0 THEN RepeatSquare((b * b) % p, count - 1, p) ELSE b

\* Zp::sqrt, the Tonelli-Shanks loop: the root mod p
RECURSIVE TonelliLoop(_, _, _, _, _)
TonelliLoop(p, m, c, t, r) ==
    IF t = 1 THEN r
    ELSE LET i == LeastSquaring((t * t) % p, 1, p)
             b == RepeatSquare(c, m - i - 1, p)
             c2 == (b * b) % p
         IN  TonelliLoop(p, i, c2, (t * c2) % p, (r * b) % p)

\* Zp::sqrt, the Hensel lift for k = 1 .. precision - 1; -1 when mod_inverse fails
RECURSIVE HenselLoop(_, _, _, _, _)
HenselLoop(value, p, precision, k, root) ==
    IF k >= precision THEN root
    ELSE LET pk == Pow(p, k)
             pk1 == pk * p
             f == TruncMod(root * root - value, pk1)
             inv == ModInverse(2 * root, p)
             correction == TruncDiv(f, pk) * inv
             r == TruncMod(root - correction * pk, pk1)
         IN  IF f = 0 THEN HenselLoop(value, p, precision, k + 1, root)
             ELSE IF inv < 0 THEN -1
             ELSE HenselLoop(value, p, precision, k + 1, IF r < 0 THEN r + pk1 ELSE r)

\* Zp::sqrt
ZpSqrt(x) ==
    IF ~is_unit(x) THEN ZpFail("domain_error")
    ELSE IF x.prime = 2 /\ TruncMod(x.value, 8) # 1 THEN ZpFail("domain_error")
    ELSE IF x.prime # 2 /\ BigPowMod(x.value, TruncDiv(x.prime - 1, 2), x.prime) # 1
    THEN ZpFail("domain_error")
    ELSE LET p == x.prime
             qs == SplitPowerOfTwo(p - 1, 0)
             q == qs[1]
             z == FindNonResidue(2, p)
             root0 == IF p = 2 THEN 1
                      ELSE TonelliLoop(p, qs[2], BigPowMod(z, q, p),
                                       BigPowMod(x.value, q, p),
                                       BigPowMod(x.value, TruncDiv(q + 1, 2), p))
             root == HenselLoop(x.value, p, x.precision, 1, root0)
         IN  IF root < 0 THEN ZpFail("bignum_error")
             ELSE Zp(p, x.precision, root)

\* Zp::from_rational, the loop that strips the factors of p from den
RECURSIVE StripPrime(_, _)
StripPrime(den, p) ==
    IF IsDivisibleBy(den, p) THEN StripPrime(TruncDiv(den, p), p) ELSE den

\* Zp::from_rational.  For p = 1 or p = -1 every den is divisible by p and
\* the stripping loop leaves it unchanged (up to sign): the call never returns.
from_rational(numerator, denominator, p, precision) ==
    IF denominator = 0 THEN ZpFail("domain_error")
    ELSE IF p = 1 \/ p = -1 THEN ZpFail("hang")
    ELSE LET den == StripPrime(denominator, p)
             p_power == Pow(p, precision)
             inv == ModInverse(den, p_power)
             result == TruncMod(numerator * inv, p_power)
         IN  IF inv < 0 THEN ZpFail("bignum_error")
             ELSE Zp(p, precision, result)

----------------------------------------------------------------------------
(* PadicLog.  An outcome is a record: err = "none" and the Qp returned, or  *)
(* the error thrown.                                                        *)

QpOk(x) == [err |-> "none", value |-> x]

QpFail(e) == [err |-> e, value |-> QpZero(2, 1)]

\* Qp::with_precision: the unit reduced to, or formally extended to, N digits
QpWithPrecision(x, N) ==
    IF QpIsZero(x) \/ x.unit % Pow(x.prime, N) = 0 THEN QpZero(x.prime, N)
    ELSE [x EXCEPT !.precision = N, !.unit = x.unit % Pow(x.prime, N)]

\* A convergence test that asks valuation >= 1 of x - 1 for every prime.
check_convergence_any_prime(x) ==
    IF QpIsZero(x) THEN FALSE
    ELSE QpSub(x, QpInt(x.prime, x.precision, 1)).valuation >= 1

\* PadicLog::check_convergence_condition
check_convergence_condition(x) ==
    IF QpIsZero(x) THEN FALSE
    ELSE LET p == x.prime
             one == QpInt(p, x.precision, 1)
             diff == QpSub(x, one)
         IN  IF p = 2 THEN diff.valuation >= 2 ELSE diff.valuation >= 1

\* A term count that keeps the first term of the series only.
compute_first_term_only(p, precision, u_valuation) == 1

\* PadicLog::compute_required_terms
compute_required_terms(p, precision, u_valuation) ==
    IF u_valuation <= 0 THEN precision * 2
    ELSE Min(TruncDiv(precision, u_valuation) + 10, precision * 3)

\* PadicLog::log, the count of the powers of p up to 2N
RECURSIVE PDividesCount(_, _, _)
PDividesCount(n, p, N) ==
    IF n <= N * 2 THEN 1 + PDividesCount(n * p, p, N) ELSE 0

\* PadicLog::log, the loop over the terms u^n / n for n = 2 .. terms
RECURSIVE LogSeries(_, _, _, _, _, _)
LogSeries(u, working_precision, terms, n, result, u_power) ==
    IF n > terms THEN result
    ELSE LET divisor == QpInt(u.prime, working_precision, n)
             term == QpDiv(u_power, divisor)
             sum == IF n % 2 = 1 THEN QpAdd(result, term) ELSE QpSub(result, term)
             next_power == QpMul(u_power, u)
         IN  IF term.valuation >= working_precision THEN result
             ELSE IF next_power.valuation >= working_precision THEN sum
             ELSE LogSeries(u, working_precision, terms, n + 1, sum, next_power)

\* PadicLog::log
log(x) ==
    IF QpIsZero(x) THEN QpFail("domain_error")
    ELSE IF x.valuation # 0 THEN QpFail("domain_error")
    ELSE LET p == x.prime
             N == x.precision
             working_precision == N + PDividesCount(p, p, N) + 5
             one == QpInt(p, working_precision, 1)
             u == QpSub(QpWithPrecision(x, working_precision), one)
             terms == compute_required_terms(p, working_precision, u.valuation)
         IN  IF ~check_convergence_condition(x) THEN QpFail("domain_error")
             ELSE IF terms < 1 THEN QpOk(QpInt(p, N, 0))
             ELSE QpOk(QpWithPrecision(
                      LogSeries(u, working_precision, terms, 2, u, QpMul(u, u)), N))

\* PadicLog::log_unit
log_unit(x) ==
    IF ~is_unit(x) THEN QpFail("domain_error")
    ELSE LET one == Zp(x.prime, x.precision, 1)
             congruent_check == with_precision(x, 1)
         IN  IF congruent_check.value # with_precision(one, 1).value
             THEN QpFail("domain_error")
             ELSE log(QpFromZp(x))

\* PadicLog::log_product
log_product(x, y) ==
    IF x.valuation # 0 \/ y.valuation # 0 THEN QpFail("domain_error")
    ELSE LET lx == log(x)
             ly == log(y)
         IN  IF lx.err # "none" THEN lx
             ELSE IF ly.err # "none" THEN ly
             ELSE QpOk(QpAdd(lx.value, ly.value))

----------------------------------------------------------------------------
(* LFunctions: the evaluators and the key of the two caches. *)

\* LFunctions::LKey as kubota_leopoldt and kubota_leopoldt_derivative build it:
\* LKey key{s, conductor, chi.evaluate_at(2), p, precision}
LKey(s, c, precision) ==
    [s |-> s, conductor |-> c.conductor, char_id |-> evaluate_at(c, 2),
     p |-> c.prime, precision |-> precision]

\* compute_B1_chi: the loop "for a" from a, carrying sum
RECURSIVE B1Sum(_, _, _, _)
B1Sum(c, precision, a, sum) ==
    IF a > c.conductor THEN sum
    ELSE IF Gcd(a, c.conductor) # 1 THEN B1Sum(c, precision, a + 1, sum)
    ELSE LET chi_a == evaluate(c, a, precision)
             term == QpMul(QpFromZp(chi_a), QpInt(c.prime, precision, a))
         IN  B1Sum(c, precision, a + 1, QpAdd(sum, term))

\* LFunctions::compute_B1_chi
compute_B1_chi(c, precision) ==
    IF is_principal(c) THEN QpFromRational(-1, 2, c.prime, precision)
    ELSE QpDiv(B1Sum(c, precision, 1, QpInt(c.prime, precision, 0)),
               QpInt(c.prime, precision, c.conductor))

\* LFunctions::compute_euler_factor: 1 - chi(p) * p^(s-1), called with s >= 1
compute_euler_factor(c, s, precision) ==
    LET one == QpInt(c.prime, precision, 1)
    IN  IF c.conductor % c.prime = 0 THEN one
        ELSE LET chi_p == evaluate(c, c.prime, precision)
                 p_power == QpInt(c.prime, precision, Pow(c.prime, s - 1))
             IN  QpSub(one, QpMul(QpFromZp(chi_p), p_power))

\* the largest k with 2^k <= x: the integer part of log(x) / log(2), x >= 1
RECURSIVE FloorLog2(_)
FloorLog2(x) == IF x < 2 THEN 0 ELSE 1 + FloorLog2(x \div 2)

\* compute_positive_value: the loop "for n" from n, carrying sum
RECURSIVE PositiveSum(_, _, _, _, _, _)
PositiveSum(c, s, precision, num_terms, n, sum) ==
    IF n > num_terms THEN sum
    ELSE IF n % c.prime = 0 THEN PositiveSum(c, s, precision, num_terms, n + 1, sum)
    ELSE LET chi_n == evaluate(c, n, precision)
         IN  IF ~is_zero(chi_n)
             THEN LET n_power == QpPow(QpInt(c.prime, precision, n), s)
                  IN  PositiveSum(c, s, precision, num_terms, n + 1,
                                  QpAdd(sum, QpDiv(QpFromZp(chi_n), n_power)))
             ELSE PositiveSum(c, s, precision, num_terms, n + 1, sum)

\* LFunctions::compute_positive_value; num_terms is
\* precision * log(p) / log(2) + 10 converted to long
compute_positive_value(c, s, precision) ==
    LET num_terms == FloorLog2(Pow(c.prime, precision)) + 10
        sum == PositiveSum(c, s, precision, num_terms, 1,
                           QpInt(c.prime, precision, 0))
    IN  QpMul(compute_euler_factor(c, s, precision), sum)

\* LFunctions::kubota_leopoldt past the cache lookup, for s >= 0: the value
\* stored under the key and returned
kubota_leopoldt_value(s, c, precision) ==
    IF s = 0
    THEN LET B1_chi == compute_B1_chi(c, precision)
             euler_factor == compute_euler_factor(c, 1, precision)
         IN  QpMul(QpNeg(euler_factor), B1_chi)
    ELSE compute_positive_value(c, s, precision)

\* compute_derivative_at_zero_even: the loop "for a" from a, carrying sum; the
\* outcome is the sum, or the domain error log_p throws
RECURSIVE EvenDerivativeSum(_, _, _, _)
EvenDerivativeSum(c, precision, a, sum) ==
    IF a >= c.conductor THEN QpOk(sum)
    ELSE IF Gcd(a, c.conductor) # 1 THEN EvenDerivativeSum(c, precision, a + 1, sum)
    ELSE LET chi_a == evaluate(c, a, precision)
             log_term == log(QpFromRational(a, c.conductor - 1, c.prime, precision))
         IN  IF is_zero(chi_a) THEN EvenDerivativeSum(c, precision, a + 1, sum)
             ELSE IF log_term.err # "none" THEN log_term
             ELSE EvenDerivativeSum(c, precision, a + 1,
                      QpAdd(sum, QpMul(QpFromZp(chi_a), log_term.value)))

\* LFunctions::compute_derivative_at_zero_even
compute_derivative_at_zero_even(c, precision) ==
    EvenDerivativeSum(c, precision, 1, QpInt(c.prime, precision, 0))

\* kubota_leopoldt_derivative, the branch s != 0, from the three values the
\* calls of kubota_leopoldt at s, s + 1 and s - 1 return
numerical_derivative(L_s, L_plus, L_minus, p, precision) ==
    LET h_exp == TruncDiv(precision, 2)
        h == QpInt(p, precision, Pow(p, h_exp))
        f_plus == QpAdd(L_s, QpMul(L_plus, h))
        f_minus == QpSub(L_s, QpMul(L_minus, h))
    IN  QpDiv(QpSub(f_plus, f_minus), QpMul(QpInt(p, precision, 2), h))

----------------------------------------------------------------------------
(* SpecZp: the operands are built by the value constructor and the binary  *)
(* operators are applied to them; a result can be taken as an operand.     *)

\* the values of p a constructor is called with: two primes, and 1, which
\* validate_prime rejects
ZpPrimeInputs == {1, 2, 3}

ZpIdle == ZpFail("idle")

\* both operands start as Zp(), the default-constructed value (2, 1, 0)
InitZpPart ==
    /\ zx = ZpVal(2, 1, 0)
    /\ zy = ZpVal(2, 1, 0)
    /\ zr = ZpIdle
    /\ zop = "init"
    /\ zarg = <<>>

\* x = Zp(p, N, val): a failed construction yields no operand
NewX(p, N, val) ==
    /\ zr' = Zp(p, N, val)
    /\ zx' = IF zr'.err = "none" THEN zr' ELSE zx
    /\ zop' = "ctor"
    /\ zarg' = <<>>
    /\ UNCHANGED zy
    /\ UNCHANGED <<cvars, lvars, qvars>>

\* y = Zp(p, N, val)
NewY(p, N, val) ==
    /\ zr' = Zp(p, N, val)
    /\ zy' = IF zr'.err = "none" THEN zr' ELSE zy
    /\ zop' = "ctor"
    /\ zarg' = <<>>
    /\ UNCHANGED zx
    /\ UNCHANGED <<cvars, lvars, qvars>>

Add ==
    /\ zr' = ZpAdd(zx, zy)
    /\ zop' = "add"
    /\ zarg' = <<>>
    /\ UNCHANGED <<zx, zy>>
    /\ UNCHANGED <<cvars, lvars, qvars>>

Sub ==
    /\ zr' = ZpSub(zx, zy)
    /\ zop' = "sub"
    /\ zarg' = <<>>
    /\ UNCHANGED <<zx, zy>>
    /\ UNCHANGED <<cvars, lvars, qvars>>

Mul ==
    /\ zr' = ZpMul(zx, zy)
    /\ zop' = "mul"
    /\ zarg' = <<>>
    /\ UNCHANGED <<zx, zy>>
    /\ UNCHANGED <<cvars, lvars, qvars>>

Div ==
    /\ zr' = ZpDiv(zx, zy)
    /\ zop' = "div"
    /\ zarg' = <<>>
    /\ UNCHANGED <<zx, zy>>
    /\ UNCHANGED <<cvars, lvars, qvars>>

\* x = <the last result>, when the last operation returned a value
TakeResult ==
    /\ zr.err = "none"
    /\ zop \notin {"init", "ctor", "from_rational", "take"}
    /\ zx' = zr
    /\ zop' = "take"
    /\ zarg' = <<>>
    /\ UNCHANGED <<zy, zr>>
    /\ UNCHANGED <<cvars, lvars, qvars>>

\* x = Zp(p, N), the zero of precision N
NewZero(p, N) ==
    /\ zr' = ZpZero(p, N)
    /\ zx' = IF zr'.err = "none" THEN zr' ELSE zx
    /\ zop' = "ctor"
    /\ zarg' = <<>>
    /\ UNCHANGED zy
    /\ UNCHANGED <<cvars, lvars, qvars>>

\* x = Zp::from_rational(a, b, p, N)
FromRational(a, b, p, N) ==
    /\ zr' = from_rational(a, b, p, N)
    /\ zx' = IF zr'.err = "none" THEN zr' ELSE zx
    /\ zop' = "from_rational"
    /\ zarg' = <<a, b, p, N>>
    /\ UNCHANGED zy
    /\ UNCHANGED <<cvars, lvars, qvars>>

\* x * Zp(p, N, b), after x = from_rational(a, b, p, N) returned
MulByDenominator ==
    /\ zop = "from_rational"
    /\ zr.err = "none"
    /\ zr' = ZpMul(zx, Zp(zarg[3], zarg[4], zarg[2]))
    /\ zop' = "mul_denominator"
    /\ UNCHANGED <<zx, zy, zarg>>
    /\ UNCHANGED <<cvars, lvars, qvars>>

WithPrecision(new_precision) ==
    /\ zr' = with_precision(zx, new_precision)
    /\ zop' = "with_precision"
    /\ zarg' = <<new_precision>>
    /\ UNCHANGED <<zx, zy>>
    /\ UNCHANGED <<cvars, lvars, qvars>>

LiftPrecision(new_precision) ==
    /\ zr' = lift_precision(zx, new_precision)
    /\ zop' = "lift_precision"
    /\ zarg' = <<new_precision>>
    /\ UNCHANGED <<zx, zy>>
    /\ UNCHANGED <<cvars, lvars, qvars>>

Neg ==
    /\ zr' = ZpNeg(zx)
    /\ zop' = "neg"
    /\ zarg' = <<>>
    /\ UNCHANGED <<zx, zy>>
    /\ UNCHANGED <<cvars, lvars, qvars>>

PowOp(exp) ==
    /\ zr' = ZpPow(zx, exp)
    /\ zop' = "pow"
    /\ zarg' = <<exp>>
    /\ UNCHANGED <<zx, zy>>
    /\ UNCHANGED <<cvars, lvars, qvars>>

UnitPart ==
    /\ zr' = unit_part(zx)
    /\ zop' = "unit_part"
    /\ zarg' = <<>>
    /\ UNCHANGED <<zx, zy>>
    /\ UNCHANGED <<cvars, lvars, qvars>>

Sqrt ==
    /\ zr' = ZpSqrt(zx)
    /\ zop' = "sqrt"
    /\ zarg' = <<>>
    /\ UNCHANGED <<zx, zy>>
    /\ UNCHANGED <<cvars, lvars, qvars>>

\* no character constructed yet
CharInitial == CharFail("unconstructed")

InitCharPart ==
    /\ chi = CharInitial
    /\ value_cache = EmptyValueCache
    /\ cop = "init"
    /\ carg = <<>>
    /\ cret = <<>>

EmptyCache == [k \in {} |-> QpZero(2, 1)]

LCallIdle ==
    [op |-> "init", s |-> 0, chi |-> CharInitial, precision |-> 1, hit |-> FALSE,
     err |-> "none"]

\* both caches start empty
InitLPart ==
    /\ l_cache = EmptyCache
    /\ l_derivative_cache = EmptyCache
    /\ lcall = LCallIdle
    /\ lret = QpZero(2, 1)

\* no call of PadicLog yet; the arguments start as the Qp 1 of precision 1
InitLogPart ==
    /\ qx = QpInt(2, 1, 1)
    /\ qy = QpInt(2, 1, 1)
    /\ qop = "init"
    /\ qret = QpFail("idle")

InitZp == InitZpPart /\ InitCharPart /\ InitLPart /\ InitLogPart

NextZp ==
    \/ \E p \in ZpPrimeInputs, N \in 0 .. MaxPrec, val \in (-MaxVal) .. MaxVal :
           NewX(p, N, val)
    \/ \E p \in ZpPrimeInputs, N \in 0 .. MaxPrec, val \in (-MaxVal) .. MaxVal :
           NewY(p, N, val)
    \/ Add
    \/ Sub
    \/ Mul
    \/ Div
    \/ TakeResult

SpecZp == InitZp /\ [][NextZp]_vars

\* SpecZpUnary: one operand, built with precisions up to MaxLiftPrec, and
\* the operations on one Zp.
ZpLiftPrimes == {2, 5}

NextZpUnary ==
    \/ \E p \in ZpLiftPrimes, N \in 1 .. MaxLiftPrec, val \in 0 .. MaxVal :
           NewX(p, N, val)
    \/ \E p \in ZpLiftPrimes \cup {1}, N \in 0 .. MaxLiftPrec : NewZero(p, N)
    \/ \E n \in 0 .. MaxLiftPrec : WithPrecision(n)
    \/ \E n \in 0 .. MaxLiftPrec : LiftPrecision(n)
    \/ Neg
    \/ \E e \in 0 .. MaxExp : PowOp(e)
    \/ UnitPart
    \/ Sqrt
    \/ TakeResult

SpecZpUnary == InitZp /\ [][NextZpUnary]_vars

\* SpecZpRational: the operand is built by from_rational and multiplied
\* by the denominator.
NextZpRational ==
    \/ \E a \in (-MaxRat) .. MaxRat, b \in (-MaxRat) .. MaxRat,
          p \in ZpPrimeInputs, N \in 0 .. MaxPrec : FromRational(a, b, p, N)
    \/ MulByDenominator

SpecZpRational == InitZp /\ [][NextZpRational]_vars

----------------------------------------------------------------------------
(* SpecChar: one character, built once by either constructor and          *)
(* immutable thereafter, its queries, and the two static enumerations.     *)

\* the primes p attached to characters
CharPrimes == {3, 5}

CharModuli == 1 .. MaxMod

\* the exponent tuples (e_1, ..., e_r) with 0 <= e_i < m_i for the modulus n
ExponentTuples(n) ==
    LET orders == OrderList(n)
        top == IF Len(orders) = 0 THEN 0
               ELSE CHOOSE m \in {orders[i] : i \in 1 .. Len(orders)} :
                        \A i \in 1 .. Len(orders) : orders[i] <= m
    IN  {t \in [1 .. Len(orders) -> 0 .. (top - 1)] :
            \A i \in 1 .. Len(orders) : t[i] < orders[i]}

\* the tuples the three-argument constructor is called with: the exponent tuples
\* of the modulus, and one of a wrong length
ConstructorTuples(n) == ExponentTuples(n) \cup {<<0, 0, 0>>}

\* chi = DirichletCharacter(n, p)
Construct2(n, p) ==
    /\ cop = "init"
    /\ chi' = DirichletCharacter2(n, p)
    /\ value_cache' = EmptyValueCache
    /\ cop' = "ctor2"
    /\ carg' = <<n, p>>
    /\ cret' = <<>>
    /\ UNCHANGED <<zvars, lvars, qvars>>

\* chi = DirichletCharacter(n, p, gen_values); a failed construction leaves chi
Construct3(n, p, gen_values) ==
    /\ cop = "init"
    /\ LET c == DirichletCharacter3(n, p, gen_values)
       IN  /\ chi' = IF c.err = "none" THEN c ELSE chi
           /\ cop' = IF c.err = "none" THEN "ctor3" ELSE c.err
    /\ value_cache' = EmptyValueCache
    /\ carg' = <<n, p>>
    /\ cret' = <<>>
    /\ UNCHANGED <<zvars, lvars, qvars>>

EvaluateAt(a) ==
    /\ chi.err = "none"
    /\ cop' = "evaluate_at"
    /\ carg' = <<a>>
    /\ cret' = evaluate_at(chi, a)
    /\ UNCHANGED <<chi, value_cache, zvars, lvars, qvars>>

GetConductor ==
    /\ chi.err = "none"
    /\ cop' = "get_conductor"
    /\ carg' = <<>>
    /\ cret' = chi.conductor
    /\ UNCHANGED <<chi, value_cache, zvars, lvars, qvars>>

IsEven ==
    /\ chi.err = "none"
    /\ cop' = "is_even"
    /\ carg' = <<>>
    /\ cret' = is_even(chi)
    /\ UNCHANGED <<chi, value_cache, zvars, lvars, qvars>>

IsOdd ==
    /\ chi.err = "none"
    /\ cop' = "is_odd"
    /\ carg' = <<>>
    /\ cret' = is_odd(chi)
    /\ UNCHANGED <<chi, value_cache, zvars, lvars, qvars>>

IsPrimitive ==
    /\ chi.err = "none"
    /\ cop' = "is_primitive"
    /\ carg' = <<>>
    /\ cret' = is_primitive(chi)
    /\ UNCHANGED <<chi, value_cache, zvars, lvars, qvars>>

IsPrincipal ==
    /\ chi.err = "none"
    /\ cop' = "is_principal"
    /\ carg' = <<>>
    /\ cret' = is_principal(chi)
    /\ UNCHANGED <<chi, value_cache, zvars, lvars, qvars>>

GetOrder ==
    /\ chi.err = "none"
    /\ cop' = "get_order"
    /\ carg' = <<>>
    /\ cret' = get_order(chi)
    /\ UNCHANGED <<chi, value_cache, zvars, lvars, qvars>>

\* chi.evaluate_cyclotomic(n, precision)
EvaluateCyclotomic(n, precision) ==
    /\ chi.err = "none"
    /\ LET r == evaluate_cyclotomic(chi, value_cache, n, precision)
       IN  /\ cret' = r.value
           /\ value_cache' = r.cache
    /\ cop' = "evaluate_cyclotomic"
    /\ carg' = <<n, precision>>
    /\ UNCHANGED <<chi, zvars, lvars, qvars>>

\* chi.gauss_sum(precision)
GaussSum(precision) ==
    /\ chi.err = "none"
    /\ LET r == gauss_sum(chi, value_cache, precision)
       IN  /\ cret' = r.value
           /\ value_cache' = r.cache
    /\ cop' = "gauss_sum"
    /\ carg' = <<precision>>
    /\ UNCHANGED <<chi, zvars, lvars, qvars>>

\* the static enumerations, called with the modulus and prime of the character
EnumerateCharacters(n, p) ==
    /\ chi.err = "none"
    /\ cop' = "enumerate_characters"
    /\ carg' = <<n, p>>
    /\ cret' = enumerate_characters(n, p)
    /\ UNCHANGED <<chi, value_cache, zvars, lvars, qvars>>

EnumeratePrimitiveCharacters(n, p) ==
    /\ chi.err = "none"
    /\ cop' = "enumerate_primitive_characters"
    /\ carg' = <<n, p>>
    /\ cret' = enumerate_primitive_characters(n, p)
    /\ UNCHANGED <<chi, value_cache, zvars, lvars, qvars>>

InitChar == InitZpPart /\ InitCharPart /\ InitLPart /\ InitLogPart

NextChar ==
    \/ \E n \in CharModuli, p \in CharPrimes : Construct2(n, p)
    \/ \E n \in CharModuli, p \in CharPrimes :
           \E gen_values \in ConstructorTuples(n) :
               Construct3(n, p, gen_values)
    \/ \E a \in -1 .. (MaxMod + 1) : EvaluateAt(a)
    \/ GetConductor
    \/ IsEven
    \/ IsOdd
    \/ IsPrimitive
    \/ IsPrincipal
    \/ GetOrder
    \/ EnumerateCharacters(chi.modulus, chi.prime)
    \/ EnumeratePrimitiveCharacters(chi.modulus, chi.prime)

SpecChar == InitChar /\ [][NextChar]_vars

\* SpecCyclotomic: one character over a small modulus and its cyclotomic
\* evaluations, which fill its value_cache
CycModuli == {1, 3, 4}

CycPrecisions == 1 .. MaxPrec

NextCyclotomic ==
    \/ \E n \in CycModuli, p \in CharPrimes : Construct2(n, p)
    \/ \E n \in CycModuli, p \in CharPrimes :
           \E gen_values \in ExponentTuples(n) :
               Construct3(n, p, gen_values)
    \/ \E n \in 1 .. 3, N \in CycPrecisions : EvaluateCyclotomic(n, N)
    \/ \E N \in CycPrecisions : GaussSum(N)

SpecCyclotomic == InitChar /\ [][NextCyclotomic]_vars

----------------------------------------------------------------------------
(* SpecL: the two static caches under calls of kubota_leopoldt, made with  *)
(* s in 0 .. MaxS (a negative s needs the generalized Bernoulli numbers of *)
(* BernoulliNumbers), and of clear_cache.                                  *)

\* the moduli and primes of the characters the evaluator is called with
LModuli == {1, 7}

LPrimes == {3}

LPrecisions == {1}

\* the precisions the evaluator is called with: the valid ones, and 0
LCallPrecisions == LPrecisions \cup {0}

\* Qp::Qp(p, N, x) fails on a prime below 2 or a precision below 1, as Zp does
QpCtorFails(p, N) == p < 2 \/ N < 1

SeqRange(q) == {q[i] : i \in 1 .. Len(q)}

\* every character of enumerate_characters over the moduli and primes
LChars ==
    UNION {SeqRange(enumerate_characters(n, p)) : n \in LModuli, p \in LPrimes}

\* the value kubota_leopoldt computes past the lookup, tabulated once per call
LValues ==
    [s \in 0 .. (MaxS + 1), c \in LChars, N \in LPrecisions |->
        kubota_leopoldt_value(s, c, N)]

\* the key each call builds, tabulated
LKeys ==
    [s \in 0 .. (MaxS + 1), c \in LChars, N \in LCallPrecisions |-> LKey(s, c, N)]

\* std::map::operator[] assignment
MapPut(m, k, v) == [x \in DOMAIN m \cup {k} |-> IF x = k THEN v ELSE m[x]]

\* A kubota_leopoldt without the lookup: it computes and stores at every call.
KubotaLeopoldtNoLookup(s, c, precision) ==
    LET key == LKeys[s, c, precision]
        failed == QpCtorFails(c.prime, precision)
    IN  /\ (key \notin DOMAIN l_cache) =>
               Cardinality(DOMAIN l_cache) + Cardinality(DOMAIN l_derivative_cache)
                 < (IF failed THEN MaxCache + 1 ELSE MaxCache)
        /\ IF failed
           THEN /\ lret' = QpZero(2, 1)
                /\ UNCHANGED l_cache
           ELSE /\ lret' = LValues[s, c, precision]
                /\ l_cache' = MapPut(l_cache, key, LValues[s, c, precision])
        /\ lcall' = [op |-> "kubota_leopoldt", s |-> s, chi |-> c,
                     precision |-> precision, hit |-> key \in DOMAIN l_cache,
                     err |-> IF failed THEN "invalid_argument" ELSE "none"]
        /\ UNCHANGED <<l_derivative_cache, zvars, cvars, qvars>>

\* LFunctions::kubota_leopoldt(s, c, precision).  Past the lookup the call
\* fails in "Qp result(p, precision, 0)" when the precision is below 1.  A
\* call that inserts is made only while both caches together hold fewer than
\* MaxCache entries, a call that fails while they hold at most MaxCache.
KubotaLeopoldt(s, c, precision) ==
    LET key == LKeys[s, c, precision]
        failed == key \notin DOMAIN l_cache /\ QpCtorFails(c.prime, precision)
    IN  /\ (key \notin DOMAIN l_cache) =>
               Cardinality(DOMAIN l_cache) + Cardinality(DOMAIN l_derivative_cache)
                 < (IF failed THEN MaxCache + 1 ELSE MaxCache)
        /\ IF key \in DOMAIN l_cache
           THEN /\ lret' = l_cache[key]
                /\ UNCHANGED l_cache
           ELSE IF failed
           THEN /\ lret' = QpZero(2, 1)
                /\ UNCHANGED l_cache
           ELSE /\ lret' = LValues[s, c, precision]
                /\ l_cache' = MapPut(l_cache, key, LValues[s, c, precision])
        /\ lcall' = [op |-> "kubota_leopoldt", s |-> s, chi |-> c,
                     precision |-> precision, hit |-> key \in DOMAIN l_cache,
                     err |-> IF failed THEN "invalid_argument" ELSE "none"]
        /\ UNCHANGED <<l_derivative_cache, zvars, cvars, qvars>>

\* what kubota_leopoldt(s, c, precision) returns: the cached value, or the
\* value it computes and stores
Returned(s, c, precision) ==
    IF LKeys[s, c, precision] \in DOMAIN l_cache
    THEN l_cache[LKeys[s, c, precision]]
    ELSE LValues[s, c, precision]

\* kubota_leopoldt_derivative creating the entry of the key before the value
\* is computed, so that a failing call leaves the entry behind
KubotaLeopoldtDerivativeKeepsEntry(s, c, precision) ==
    LET key == LKeys[s, c, precision]
        hit == key \in DOMAIN l_derivative_cache
        at_zero == compute_derivative_at_zero_even(c, precision)
        result == IF s = 0 THEN at_zero.value
                  ELSE numerical_derivative(Returned(s, c, precision),
                                            Returned(s + 1, c, precision),
                                            Returned(s - 1, c, precision),
                                            c.prime, precision)
        invalid == ~hit /\ QpCtorFails(c.prime, precision)
        failed == invalid \/ (~hit /\ s = 0 /\ at_zero.err # "none")
        filled == MapPut(MapPut(MapPut(l_cache,
                      LKeys[s, c, precision], Returned(s, c, precision)),
                      LKeys[s + 1, c, precision], Returned(s + 1, c, precision)),
                      LKeys[s - 1, c, precision], Returned(s - 1, c, precision))
    IN  /\ s = 0 => ~is_odd(c)
        /\ ~hit => Cardinality(DOMAIN l_cache) + Cardinality(DOMAIN l_derivative_cache)
                      < (IF failed THEN MaxCache + 1 ELSE MaxCache)
        /\ lret' = IF hit THEN l_derivative_cache[key]
                   ELSE IF failed THEN QpZero(c.prime, precision)
                   ELSE result
        /\ l_derivative_cache' = IF hit THEN l_derivative_cache
                                 ELSE IF failed
                                 THEN MapPut(l_derivative_cache, key,
                                             QpZero(c.prime, precision))
                                 ELSE MapPut(l_derivative_cache, key, result)
        /\ l_cache' = IF hit \/ failed \/ s = 0 THEN l_cache ELSE filled
        /\ lcall' = [op |-> "kubota_leopoldt_derivative", s |-> s, chi |-> c,
                     precision |-> precision, hit |-> hit,
                     err |-> IF invalid THEN "invalid_argument"
                             ELSE IF failed THEN at_zero.err ELSE "none"]
        /\ UNCHANGED <<zvars, cvars, qvars>>

\* LFunctions::kubota_leopoldt_derivative(s, c, precision).  At s = 0 the branch
\* of even characters is taken (compute_derivative_at_zero_odd needs PadicGamma);
\* at s != 0 the calls of kubota_leopoldt at s, s + 1 and s - 1 fill l_cache.
\* Past the lookup the call fails in "Qp result(p, precision, 0)" when the
\* precision is below 1.
\* A call that inserts is made only while both caches together hold fewer
\* than MaxCache entries, a call that fails while they hold at most MaxCache.
KubotaLeopoldtDerivative(s, c, precision) ==
    LET key == LKeys[s, c, precision]
        hit == key \in DOMAIN l_derivative_cache
        at_zero == compute_derivative_at_zero_even(c, precision)
        result == IF s = 0 THEN at_zero.value
                  ELSE numerical_derivative(Returned(s, c, precision),
                                            Returned(s + 1, c, precision),
                                            Returned(s - 1, c, precision),
                                            c.prime, precision)
        invalid == ~hit /\ QpCtorFails(c.prime, precision)
        failed == invalid \/ (~hit /\ s = 0 /\ at_zero.err # "none")
        filled == MapPut(MapPut(MapPut(l_cache,
                      LKeys[s, c, precision], Returned(s, c, precision)),
                      LKeys[s + 1, c, precision], Returned(s + 1, c, precision)),
                      LKeys[s - 1, c, precision], Returned(s - 1, c, precision))
    IN  /\ s = 0 => ~is_odd(c)
        /\ ~hit => Cardinality(DOMAIN l_cache) + Cardinality(DOMAIN l_derivative_cache)
                      < (IF failed THEN MaxCache + 1 ELSE MaxCache)
        /\ lret' = IF hit THEN l_derivative_cache[key]
                   ELSE IF failed THEN QpZero(c.prime, precision)
                   ELSE result
        /\ l_derivative_cache' = IF hit \/ failed THEN l_derivative_cache
                                 ELSE MapPut(l_derivative_cache, key, result)
        /\ l_cache' = IF hit \/ failed \/ s = 0 THEN l_cache ELSE filled
        /\ lcall' = [op |-> "kubota_leopoldt_derivative", s |-> s, chi |-> c,
                     precision |-> precision, hit |-> hit,
                     err |-> IF invalid THEN "invalid_argument"
                             ELSE IF failed THEN at_zero.err ELSE "none"]
        /\ UNCHANGED <<zvars, cvars, qvars>>

\* LFunctions::clear_cache
ClearCache ==
    /\ l_cache' = EmptyCache
    /\ l_derivative_cache' = EmptyCache
    /\ lcall' = [LCallIdle EXCEPT !.op = "clear_cache"]
    /\ lret' = QpZero(2, 1)
    /\ UNCHANGED <<zvars, cvars, qvars>>

InitL == InitZpPart /\ InitCharPart /\ InitLPart /\ InitLogPart

NextL ==
    \/ \E s \in 0 .. MaxS, c \in LChars, N \in LCallPrecisions : KubotaLeopoldt(s, c, N)
    \/ \E s \in 0 .. MaxS, c \in LChars, N \in LCallPrecisions :
           KubotaLeopoldtDerivative(s, c, N)
    \/ ClearCache

SpecL == InitL /\ [][NextL]_vars

----------------------------------------------------------------------------
(* SpecLog: two Qp arguments, built from integers, and the calls of        *)
(* PadicLog on them.                                                       *)

LogPrimes == {2, 3}

\* the precisions of the arguments: at precision 4 and p = 3 the working
\* precision is 10 and the products of two residues exceed 32 bits
LogPrecisions == {1, 2, 3}

\* x = Qp(p, N, val)
NewQx(p, N, val) ==
    /\ qx' = QpInt(p, N, val)
    /\ qop' = "ctor"
    /\ qret' = QpFail("idle")
    /\ UNCHANGED qy
    /\ UNCHANGED <<zvars, cvars, lvars>>

\* y = Qp(p, N, val), of the prime and precision of x
NewQy(val) ==
    /\ qy' = QpInt(qx.prime, qx.precision, val)
    /\ qop' = "ctor"
    /\ qret' = QpFail("idle")
    /\ UNCHANGED qx
    /\ UNCHANGED <<zvars, cvars, lvars>>

Log ==
    /\ qret' = log(qx)
    /\ qop' = "log"
    /\ UNCHANGED <<qx, qy>>
    /\ UNCHANGED <<zvars, cvars, lvars>>

\* log_unit(Zp(p, N, val)), of the prime and precision of x; x becomes the
\* Qp the argument is promoted to
LogUnit(val) ==
    /\ qret' = log_unit(Zp(qx.prime, qx.precision, val))
    /\ qx' = QpFromZp(Zp(qx.prime, qx.precision, val))
    /\ qop' = "log_unit"
    /\ UNCHANGED qy
    /\ UNCHANGED <<zvars, cvars, lvars>>

LogProduct ==
    /\ qret' = log_product(qx, qy)
    /\ qop' = "log_product"
    /\ UNCHANGED <<qx, qy>>
    /\ UNCHANGED <<zvars, cvars, lvars>>

InitLog == InitZpPart /\ InitCharPart /\ InitLPart /\ InitLogPart

NextLog ==
    \/ \E p \in LogPrimes, N \in LogPrecisions, val \in 0 .. MaxVal : NewQx(p, N, val)
    \/ \E val \in 0 .. MaxVal : NewQy(val)
    \/ Log
    \/ \E val \in 0 .. MaxVal : LogUnit(val)
    \/ LogProduct

SpecLog == InitLog /\ [][NextLog]_vars

----------------------------------------------------------------------------
(* Claims about Zp arithmetic. *)

SamePrime == zx.prime = zy.prime

MinPrec == Min(zx.precision, zy.precision)

\* the integer the claim expects of the last +, - or *
ExpectedInteger ==
    CASE zop = "add" -> zx.value + zy.value
      [] zop = "sub" -> zx.value - zy.value
      [] zop = "mul" -> zx.value * zy.value
      [] OTHER -> 0

\* C1: for x, y of the same prime, each of x + y, x - y, x * y has precision
\* min(N_x, N_y) and the representative (x.value op y.value) mod p^min(N_x, N_y),
\* which lies in [0, p^min(N_x, N_y)).
C1_RingOpsReduceModMinPrecision ==
    (zop \in {"add", "sub", "mul"} /\ SamePrime) =>
        /\ zr.err = "none"
        /\ zr.prime = zx.prime
        /\ zr.precision = MinPrec
        /\ zr.value = ExpectedInteger % Pow(zx.prime, MinPrec)
        /\ 0 <= zr.value
        /\ zr.value < Pow(zx.prime, MinPrec)

\* C1 witness: a product of operands of different precisions whose integer
\* product exceeds p^min and is reduced.
C1_Witness ==
    /\ zop = "mul"
    /\ SamePrime
    /\ zx.precision > zy.precision
    /\ zx.value * zy.value >= Pow(zx.prime, MinPrec)
    /\ zr.err = "none"
    /\ zr.precision = zy.precision

\* C10: x / y fails with a domain error, and yields no value, when y is zero
\* or p divides y's representative; otherwise it returns r of precision
\* min(N_x, N_y) with r * y = x modulo p^min(N_x, N_y).
C10_DivisionByUnitsOnly ==
    (zop = "div" /\ SamePrime) =>
        IF zy.value = 0 \/ zy.value % zy.prime = 0
        THEN zr = ZpFail("domain_error")
        ELSE /\ zr.err = "none"
             /\ zr.prime = zx.prime
             /\ zr.precision = MinPrec
             /\ 0 <= zr.value
             /\ zr.value < Pow(zx.prime, MinPrec)
             /\ (zr.value * zy.value) % Pow(zx.prime, MinPrec)
                    = zx.value % Pow(zx.prime, MinPrec)

\* C10 witness: a division by a unit other than 1, at a precision above 1,
\* that returned a value.
C10_WitnessValue ==
    /\ zop = "div"
    /\ SamePrime
    /\ zy.value % zy.prime # 0
    /\ zy.value > 1
    /\ MinPrec > 1
    /\ zr.err = "none"
    /\ zr.value # zx.value

\* the number of factors p in the nonzero representative of x
FactorsOfP(x) ==
    CHOOSE k \in 0 .. x.precision :
        /\ x.value % Pow(x.prime, k) = 0
        /\ x.value % Pow(x.prime, k + 1) # 0

\* C11: for nonzero x with representative v, precision N and k = v_p(v),
\* unit_part() is the Zp with representative v / p^k and precision N - k; it
\* is a unit and its precision is at least 1.
C11_UnitPartCostsValuationDigits ==
    (zop = "unit_part" /\ zx.value # 0) =>
        LET k == FactorsOfP(zx)
        IN  /\ zr = ZpVal(zx.prime, zx.precision - k, zx.value \div Pow(zx.prime, k))
            /\ zr.value % zr.prime # 0
            /\ zr.precision >= 1

\* unit_part of a value with two factors of p: two digits of precision are lost
C11_Witness ==
    /\ zop = "unit_part"
    /\ zx.value # 0
    /\ FactorsOfP(zx) = 2
    /\ zr.err = "none"
    /\ zr.precision = zx.precision - 2
    /\ zr.value > 1

\* a/b in lowest terms has a denominator p does not divide
ReducedDenominatorPrimeTo(a, b, p) == (Abs(b) \div Gcd(a, b)) % p # 0

\* C12: for b # 0 and p not dividing the reduced denominator of a/b,
\* from_rational(a, b, p, N) returns a value and that value times Zp(p, N, b)
\* is Zp(p, N, a).
C12_FromRationalTimesDenominator ==
    (/\ zop \in {"from_rational", "mul_denominator"}
     /\ zarg[2] # 0
     /\ zarg[3] >= 2
     /\ zarg[4] >= 1
     /\ ReducedDenominatorPrimeTo(zarg[1], zarg[2], zarg[3])) =>
        /\ zr.err = "none"
        /\ zop = "mul_denominator" => zr = Zp(zarg[3], zarg[4], zarg[1])

\* x has a square root in Z_p by the rule of Zp::sqrt's contract
HasSquareRoot(x) ==
    IF x.prime = 2 THEN x.value % 8 = 1
    ELSE /\ x.value % x.prime # 0
         /\ \E r \in 1 .. (x.prime - 1) : (r * r) % x.prime = x.value % x.prime

\* C13: sqrt() of a unit that is a quadratic residue mod p (p odd), or that
\* is 1 mod 8 (p = 2), is r of the same precision N with r * r = x mod p^N;
\* of any other x it is a domain error.
C13_SqrtSquaresBack ==
    zop = "sqrt" =>
        IF HasSquareRoot(zx)
        THEN /\ zr.err = "none"
             /\ zr.prime = zx.prime
             /\ zr.precision = zx.precision
             /\ (zr.value * zr.value) % Pow(zx.prime, zx.precision) = zx.value
        ELSE zr.err = "domain_error"

\* a Zp value: prime >= 2, precision >= 1, representative in [0, p^N)
ValidZp(x) ==
    /\ x.prime >= 2
    /\ x.precision >= 1
    /\ 0 <= x.value
    /\ x.value < Pow(x.prime, x.precision)

\* C16: every Zp value built by a constructor or returned by an operation
\* has prime >= 2, precision >= 1 and representative in [0, p^N), and every
\* operation either returns such a value or fails with an error.
C16_EveryZpValueIsReduced ==
    /\ ValidZp(zx)
    /\ ValidZp(zy)
    /\ zr.err = "none" => ValidZp(zr)
    /\ zr.err # "hang"

----------------------------------------------------------------------------
(* Claims about Dirichlet characters. *)

\* every exponent e_i of the character is 0
AllZero(c) == \A i \in 1 .. Len(c.character_values) : c.character_values[i] = 0

\* L: the lcm of the orders m_i of the generators with e_i # 0
RECURSIVE LcmOfActiveOrders(_, _)
LcmOfActiveOrders(c, i) ==
    IF i > Len(c.generators) THEN 1
    ELSE IF c.character_values[i] # 0
    THEN Lcm(c.generator_orders[i], LcmOfActiveOrders(c, i + 1))
    ELSE LcmOfActiveOrders(c, i + 1)

\* Euler's phi
Phi(n) == Cardinality({a \in 1 .. n : Gcd(a, n) = 1})

\* the Moebius function
Moebius(n) ==
    LET primes == {q \in 2 .. n : n % q = 0 /\ \A d \in 2 .. (q - 1) : q % d # 0}
    IN  IF \E q \in primes : n % (q * q) = 0 THEN 0
        ELSE IF Cardinality(primes) % 2 = 0 THEN 1 ELSE -1

\* the sum over the divisors d <= k of n of mu(n/d) * phi(d)
RECURSIVE PrimitiveCountUpTo(_, _)
PrimitiveCountUpTo(n, k) ==
    IF k = 0 THEN 0
    ELSE (IF n % k = 0 THEN Moebius(n \div k) * Phi(k) ELSE 0)
            + PrimitiveCountUpTo(n, k - 1)

RECURSIVE ProductOfOrders(_, _)
ProductOfOrders(orders, i) ==
    IF i > Len(orders) THEN 1 ELSE orders[i] * ProductOfOrders(orders, i + 1)

\* chi factors through (Z/fZ)*: chi(a) = chi(b) whenever a = b mod f and both
\* are coprime to the modulus
FactorsThroughModulus(c, f) ==
    \A a, b \in 1 .. c.modulus :
        (Gcd(a, c.modulus) = 1 /\ Gcd(b, c.modulus) = 1 /\ a % f = b % f) =>
            evaluate_at(c, a) = evaluate_at(c, b)

\* the smallest divisor f of the modulus chi factors through
LeastFactoringDivisor(c) ==
    CHOOSE f \in 1 .. c.modulus :
        /\ c.modulus % f = 0
        /\ FactorsThroughModulus(c, f)
        /\ \A g \in 1 .. (f - 1) :
               ~(c.modulus % g = 0 /\ FactorsThroughModulus(c, g))

\* C5: evaluate_at is completely multiplicative: for a, b coprime to the modulus,
\* evaluate_at(a * b) = (evaluate_at(a) + evaluate_at(b)) mod L, as exponents of a
\* primitive L-th root of unity.
C5_CompletelyMultiplicative ==
    (cop = "evaluate_at" /\ Gcd(carg[1], chi.modulus) = 1) =>
        \A b \in 1 .. chi.modulus :
            Gcd(b, chi.modulus) = 1 =>
                evaluate_at(chi, carg[1] * b)
                    = (cret + evaluate_at(chi, b)) % LcmOfActiveOrders(chi, 1)

\* C6: get_conductor() is the smallest divisor f of n such that chi factors through
\* (Z/fZ)*; a principal character has conductor 1 under either constructor; the
\* four characters mod 12 have the conductors 1, 3, 4 and 12.
C6_ConductorIsLeastFactoringDivisor ==
    /\ cop = "get_conductor" =>
          /\ cret = LeastFactoringDivisor(chi)
          /\ AllZero(chi) => cret = 1
    /\ (cop = "enumerate_characters" /\ carg[1] = 12) =>
          /\ Len(cret) = 4
          /\ {cret[i].conductor : i \in 1 .. Len(cret)} = {1, 3, 4, 12}

\* C7: enumerate_characters(n, p) returns exactly phi(n) characters mod n, one for
\* each exponent tuple of the Cartesian product of [0, m_i), none repeated; the
\* product of the generator orders is phi(n).
C7_EnumerationIsTheCartesianProduct ==
    cop = "enumerate_characters" =>
        /\ Len(cret) = Phi(carg[1])
        /\ ProductOfOrders(OrderList(carg[1]), 1) = Phi(carg[1])
        /\ {cret[i].character_values : i \in 1 .. Len(cret)} = ExponentTuples(carg[1])
        /\ \A i, j \in 1 .. Len(cret) :
               cret[i].character_values = cret[j].character_values => i = j
        /\ \A i \in 1 .. Len(cret) :
               /\ cret[i].err = "none"
               /\ cret[i].modulus = carg[1]
               /\ cret[i].prime = carg[2]

\* C7 witness: the enumeration for a modulus with two generators, of orders
\* 2 and 2, returned the four characters mod 12.
C7_Witness ==
    /\ cop = "enumerate_characters"
    /\ carg[1] = 12
    /\ Len(cret) = 4
    /\ Len(cret[4].character_values) = 2

\* C8: enumerate_primitive_characters(n, p) returns exactly the characters of
\* enumerate_characters(n, p) whose conductor is n, their number is the sum over
\* d | n of mu(n/d) * phi(d), and for n = 12 it returns exactly one character.
C8_PrimitiveEnumeration ==
    cop = "enumerate_primitive_characters" =>
        /\ cret = SelectSeq(enumerate_characters(carg[1], carg[2]),
                            LAMBDA c : c.conductor = carg[1])
        /\ Len(cret) = PrimitiveCountUpTo(carg[1], carg[1])
        /\ carg[1] = 12 => Len(cret) = 1

\* C9: for a primitive non-principal character of modulus n > 1, exactly one of
\* is_even() and is_odd() returns true.
C9_ExactlyOneParity ==
    (chi.err = "none" /\ chi.modulus > 1 /\ is_primitive(chi) /\ ~AllZero(chi)) =>
        /\ cop = "is_even" => (cret # is_odd(chi))
        /\ cop = "is_odd" => (cret # is_even(chi))

\* C17: is_principal() is true if and only if every exponent e_i is 0.
C17_PrincipalIffAllExponentsZero ==
    cop = "is_principal" => (cret = AllZero(chi))

\* the lcm over i of m_i / gcd(e_i, m_i)
RECURSIVE AdditiveOrder(_, _)
AdditiveOrder(c, i) ==
    IF i > Len(c.character_values) THEN 1
    ELSE Lcm(c.generator_orders[i]
                 \div Gcd(c.character_values[i], c.generator_orders[i]),
             AdditiveOrder(c, i + 1))

\* C18: for exponents 0 <= e_i < m_i, get_order() is the lcm over i of
\* m_i / gcd(e_i, m_i).
C18_OrderIsLcmOfAdditiveOrders ==
    (/\ cop = "get_order"
     /\ \A i \in 1 .. Len(chi.character_values) :
            /\ 0 <= chi.character_values[i]
            /\ chi.character_values[i] < chi.generator_orders[i]) =>
        cret = AdditiveOrder(chi, 1)

\* C21: for a coprime to the modulus, evaluate_cyclotomic(a, N) returns what
\* it returns on a freshly constructed copy of chi (an empty value_cache),
\* a value of precision N, whatever calls came before.
C21_CyclotomicValueAtRequestedPrecision ==
    (/\ cop = "evaluate_cyclotomic"
     /\ Gcd(carg[1], chi.modulus) = 1) =>
        /\ cret = evaluate_cyclotomic(chi, EmptyValueCache, carg[1], carg[2]).value
        /\ cret.precision = carg[2]

----------------------------------------------------------------------------
(* Claims about PadicLog. *)

\* x has valuation 0 and is 1 mod p (p odd), 1 mod 4 (p = 2).  A Qp of
\* precision N is a residue class modulo p^N: for p = 2 the class lies in
\* 1 + 4 Z_2 only if N >= 2 (the class of 1 modulo 2 contains 3).
InLogDomain(x) ==
    /\ ~QpIsZero(x)
    /\ x.valuation = 0
    /\ IF x.prime = 2 THEN x.precision >= 2 /\ x.unit % 4 = 1
       ELSE x.unit % x.prime = 1

QpResidue(x, N) ==
    IF QpIsZero(x) THEN 0
    ELSE (x.unit * Pow(x.prime, x.valuation)) % Pow(x.prime, N)

\* C15: for x, y in the log domain, of one prime and precision N,
\* log(x * y) = log(x) + log(y) modulo p^N.
C15_LogIsAdditive ==
    (/\ qop = "log_product"
     /\ qx.prime = qy.prime
     /\ qx.precision = qy.precision
     /\ InLogDomain(qx)
     /\ InLogDomain(qy)) =>
        LET log_xy == log(QpMul(qx, qy))
        IN  /\ qret.err = "none"
            /\ log_xy.err = "none"
            /\ QpResidue(log_xy.value, qx.precision)
                 = QpResidue(qret.value, qx.precision)

\* log(x) + log(y) for x, y # 1 in the domain, with a nonzero sum modulo p^N
C15_Witness ==
    /\ qop = "log_product"
    /\ qx.prime = qy.prime
    /\ qx.precision = qy.precision
    /\ InLogDomain(qx)
    /\ InLogDomain(qy)
    /\ qx.unit # 1
    /\ qy.unit # 1
    /\ qret.err = "none"
    /\ QpResidue(qret.value, qx.precision) # 0

----------------------------------------------------------------------------
(* Claims about the L-function evaluator. *)

\* C2: kubota_leopoldt(s, chi, N) returns, after any sequence of earlier calls, the
\* value it returns when called first on empty caches.
C2_CacheOrderIndependence ==
    (lcall.op = "kubota_leopoldt" /\ lcall.err = "none") =>
        lret = kubota_leopoldt_value(lcall.s, lcall.chi, lcall.precision)

\* C3: two characters of the same modulus and prime whose exponent tuples differ
\* get different cache keys for the same (s, precision).
C3_KeyDistinguishesCharacters ==
    lcall.op = "kubota_leopoldt" =>
        \A c \in LChars :
            (/\ c.modulus = lcall.chi.modulus
             /\ c.prime = lcall.chi.prime
             /\ c.character_values # lcall.chi.character_values) =>
                LKey(lcall.s, c, lcall.precision)
                    # LKey(lcall.s, lcall.chi, lcall.precision)

\* -(1 - chi(p) * p^(-1)) * B_{1,chi}
ValueAtZero(c, N) ==
    LET one == QpInt(c.prime, N, 1)
        chi_p == QpFromZp(evaluate(c, c.prime, N))
        euler == QpSub(one, QpMul(chi_p, QpFromRational(1, c.prime, c.prime, N)))
    IN  QpMul(QpNeg(euler), compute_B1_chi(c, N))

\* C4: on an empty cache kubota_leopoldt(0, chi, N) is -(1 - chi(p) * p^(-1)) * B_{1,chi};
\* for the principal character mod 1 it is (p - 1)/(2p), of valuation -1.
C4_ValueAtZeroUsesInverseOfP ==
    (/\ lcall.op = "kubota_leopoldt"
     /\ lcall.s = 0
     /\ ~lcall.hit
     /\ lcall.err = "none"
     /\ Cardinality(DOMAIN l_cache) = 1) =>
        /\ lret = ValueAtZero(lcall.chi, lcall.precision)
        /\ lcall.chi.modulus = 1 =>
              /\ lret = QpFromRational(lcall.chi.prime - 1, 2 * lcall.chi.prime,
                                       lcall.chi.prime, lcall.precision)
              /\ lret.valuation = -1

\* every entry of the cache `before` is in the cache `after`, with its value
Kept(before, after) ==
    \A k \in DOMAIN before : k \in DOMAIN after /\ after[k] = before[k]

\* one call, from the caches before it to the caches after it
CacheStep ==
    /\ lcall'.op = "clear_cache" =>
          /\ l_cache' = EmptyCache
          /\ l_derivative_cache' = EmptyCache
    /\ lcall'.op # "clear_cache" =>
          /\ Kept(l_cache, l_cache')
          /\ Kept(l_derivative_cache, l_derivative_cache')
    /\ (lcall'.op = "kubota_leopoldt" /\ lcall'.hit) =>
          /\ UNCHANGED <<l_cache, l_derivative_cache>>
          /\ lret' = l_cache[LKey(lcall'.s, lcall'.chi, lcall'.precision)]
    /\ (lcall'.op = "kubota_leopoldt_derivative" /\ lcall'.hit) =>
          /\ UNCHANGED <<l_cache, l_derivative_cache>>
          /\ lret' = l_derivative_cache[LKey(lcall'.s, lcall'.chi, lcall'.precision)]

StepH(p, precision) == Pow(p, precision \div 2)

\* C20: for s # 0, kubota_leopoldt_derivative(s, chi, N) is
\* (L(s + h) - L(s - h)) / (2h) with h = p^floor(N/2), L(t) being what
\* kubota_leopoldt(t, chi, N) returns (points s - h >= 0 and s + h <= MaxS + 1).
C20_DerivativeIsSymmetricDifference ==
    (/\ lcall.op = "kubota_leopoldt_derivative"
     /\ lcall.s # 0
     /\ ~lcall.hit
     /\ lcall.err = "none"
     /\ lcall.s - StepH(lcall.chi.prime, lcall.precision) >= 0
     /\ lcall.s + StepH(lcall.chi.prime, lcall.precision) <= MaxS + 1) =>
        LET p == lcall.chi.prime
            N == lcall.precision
            h == StepH(p, N)
            L_plus == Returned(lcall.s + h, lcall.chi, N)
            L_minus == Returned(lcall.s - h, lcall.chi, N)
        IN  lret = QpDiv(QpSub(L_plus, L_minus),
                         QpMul(QpInt(p, N, 2), QpInt(p, N, h)))

\* one call that fails, from the caches before it to the caches after it
FailingCallStep ==
    lcall'.err # "none" => UNCHANGED <<l_cache, l_derivative_cache>>

====
